---------------------------- MODULE Spec2Model ----------------------------
(***************************************************************************)
(* Orbital-mechanics engine and simulation clock of SpaceSimulation.tsx.   *)
(*                                                                         *)
(* Numbers.  The program computes in IEEE doubles; the model computes in   *)
(* signed fixed point with FP units per 1 (six decimals), rounding every   *)
(* operation toward zero so that odd functions stay odd.  Math.sin, cos,   *)
(* atan2, sqrt, sinh and cosh are library functions of the platform; they  *)
(* are modelled by series that agree with them to a few units of 1/FP and  *)
(* are exact at 0 (sin 0 = 0, cos 0 = 1, atan2(0, x>0) = 0, sinh 0 = 0,    *)
(* cosh 0 = 1), as the library functions are.                              *)
(*                                                                         *)
(* Time.  simulationTime is counted in units of 1/TimeUnitsPerDay day, the *)
(* wall clock (Date.now) in milliseconds, the speed in tenths (the slider  *)
(* step), so that delta * speed = (ms / 1000) * (tenths / 10) is an exact  *)
(* number of time units and no tick is rounded.  Calendar instants are     *)
(* counted in the same time units since 1970-01-01T00:00Z.                 *)
(***************************************************************************)
EXTENDS Integers, Sequences, FiniteSets, TLC

(***************************************************************************)
(* Fixed-point arithmetic                                                  *)
(***************************************************************************)
Limb == 1000
FP == Limb * Limb

Abs(x) == IF x < 0 THEN -x ELSE x
Sgn(x) == IF x < 0 THEN -1 ELSE IF x > 0 THEN 1 ELSE 0
Max(a, b) == IF a >= b THEN a ELSE b
Min(a, b) == IF a <= b THEN a ELSE b

\* Quotient rounded toward zero (JavaScript's rounding of a/b to the grid).
Quot(a, b) == Sgn(a) * Sgn(b) * (Abs(a) \div Abs(b))

\* a * b / FP for a, b >= 0, by limbs so that no partial product leaves 32 bits.
MulMag(a, b) ==
    LET a1 == a \div Limb
        a0 == a % Limb
        b1 == b \div Limb
        b0 == b % Limb
    IN  a1 * b1 + ((a1 * b0 + a0 * b1 + ((a0 * b0) \div Limb)) \div Limb)

MulFP(a, b) == Sgn(a) * Sgn(b) * MulMag(Abs(a), Abs(b))

\* Long division: n more decimal digits of r / b appended to the quotient q.
RECURSIVE DivDigits(_, _, _, _)
DivDigits(r, b, q, n) ==
    IF n = 0 THEN q
    ELSE DivDigits((r * 10) % b, b, q * 10 + ((r * 10) \div b), n - 1)

\* a * FP / b for a >= 0, b > 0.
DivMag(a, b) == DivDigits(a % b, b, a \div b, 6)

DivFP(a, b) == Sgn(a) * Sgn(b) * DivMag(Abs(a), Abs(b))

\* Integer square root (Newton from above).
RECURSIVE ISqrtIter(_, _)
ISqrtIter(v, x) ==
    LET y == (x + (v \div x)) \div 2
    IN  IF y >= x THEN x ELSE ISqrtIter(v, y)

ISqrt(v) == IF v > 0 THEN ISqrtIter(v, 46341) ELSE 0

RECURSIVE SqrtIter(_, _, _)
SqrtIter(v, s, n) ==
    IF n = 0 THEN s
    ELSE LET t == (s + DivMag(v, s)) \div 2
         IN  IF t = s THEN s ELSE SqrtIter(v, t, n - 1)

\* Math.sqrt on fixed point.
Sqrt(v) == IF v <= 0 THEN 0 ELSE SqrtIter(v, Max(Limb * ISqrt(v), 1), 6)

PI == 3141593
TWO_PI == 6283185
HALF_PI == 1570796

\* JavaScript's % : the remainder has the sign of the dividend.
Rem(x, m) == Sgn(x) * (Abs(x) % m)

\* x reduced to [-PI, PI], as an odd function of x (Math.sin is odd and
\* Math.cos even, to the last bit).
Wrap(x) ==
    LET m == Abs(x) % TWO_PI
    IN  Sgn(x) * (IF m > PI THEN m - TWO_PI ELSE m)

\* sum_{k >= from} of the sine series, term = the previous term.
RECURSIVE SinTerms(_, _, _, _)
SinTerms(term, x2, k, acc) ==
    IF k > 7 THEN acc
    ELSE LET t == Quot(-MulFP(term, x2), (2 * k) * (2 * k + 1))
         IN  SinTerms(t, x2, k + 1, acc + t)

SinSeries(x) == SinTerms(x, MulFP(x, x), 1, x)

RECURSIVE CosTerms(_, _, _, _)
CosTerms(term, x2, k, acc) ==
    IF k > 7 THEN acc
    ELSE LET t == Quot(-MulFP(term, x2), (2 * k - 1) * (2 * k))
         IN  CosTerms(t, x2, k + 1, acc + t)

CosSeries(x) == CosTerms(FP, MulFP(x, x), 1, FP)

\* Math.sin
Sin(x) ==
    LET w == Wrap(x)
    IN  IF w > HALF_PI THEN SinSeries(PI - w)
        ELSE IF w < -HALF_PI THEN SinSeries(-PI - w)
        ELSE SinSeries(w)

\* Math.cos
Cos(x) ==
    LET w == Wrap(x)
    IN  IF w > HALF_PI THEN -CosSeries(PI - w)
        ELSE IF w < -HALF_PI THEN -CosSeries(-PI - w)
        ELSE CosSeries(w)

RECURSIVE AtanTerms(_, _, _, _)
AtanTerms(p, z2, k, acc) ==
    IF k > 7 THEN acc
    ELSE LET q == -MulFP(p, z2)
         IN  AtanTerms(q, z2, k + 1, acc + Quot(q, 2 * k + 1))

AtanSeries(z) == AtanTerms(z, MulFP(z, z), 1, z)

\* tan(t/2) from z = tan(t).
HalveTan(z) == DivFP(z, FP + Sqrt(FP + MulFP(z, z)))

AtanSmall(z) == 4 * AtanSeries(HalveTan(HalveTan(z)))

Atan(z) ==
    IF Abs(z) <= FP THEN AtanSmall(z)
    ELSE Sgn(z) * HALF_PI - AtanSmall(DivFP(FP, z))

\* Math.atan2(y, x)
Atan2(y, x) ==
    IF x = 0 THEN Sgn(y) * HALF_PI
    ELSE IF Abs(y) \div 200 > Abs(x) THEN Sgn(y) * HALF_PI - Atan(DivFP(x, y))
    ELSE IF x > 0 THEN Atan(DivFP(y, x))
    ELSE IF y >= 0 THEN Atan(DivFP(y, x)) + PI
    ELSE Atan(DivFP(y, x)) - PI

E1 == 2718282
EINV == 367879

RECURSIVE ExpTerms(_, _, _, _)
ExpTerms(term, f, k, acc) ==
    IF k > 12 THEN acc
    ELSE LET t == Quot(MulFP(term, f), k)
         IN  ExpTerms(t, f, k + 1, acc + t)

RECURSIVE Power(_, _, _)
Power(u, c, k) == IF k = 0 THEN u ELSE Power(MulFP(u, c), c, k - 1)

\* exp(x), 0 <= x <= 7.
Exp(x) == Power(ExpTerms(FP, x % FP, 1, FP), E1, x \div FP)

\* exp(-x), x >= 0; below the resolution from x = 15 on.
ExpNeg(x) ==
    IF x \div FP > 14 THEN 0
    ELSE Power(ExpTerms(FP, -(x % FP), 1, FP), EINV, x \div FP)

\* Math.sinh, Math.cosh for |x| <= 5 (1 / exp(|x|) by DivFP).
Sinh(x) ==
    LET u == Exp(Abs(x))
    IN  Sgn(x) * ((u - DivFP(FP, u)) \div 2)

Cosh(x) ==
    LET u == Exp(Abs(x))
    IN  (u + DivFP(FP, u)) \div 2

\* sinh(x)/cosh(x) and 1/cosh(x), for any x the fixed point holds.
Tanh(x) ==
    LET u == IF Abs(x) < 1000 * FP THEN ExpNeg(2 * Abs(x)) ELSE 0
    IN  Sgn(x) * DivFP(FP - u, FP + u)

Sech(x) ==
    LET u == ExpNeg(Abs(x))
    IN  DivFP(2 * u, FP + MulFP(u, u))

(***************************************************************************)
(* Static data                                                             *)
(***************************************************************************)
\* simulationTime units per day: 1 ms of wall clock at speed 0.1 is 1 unit.
TimeUnitsPerDay == 10 * Limb

NaN == 0 - 2147483647
\* A distance of RangeAU or more, or the quotient of a denominator that is
\* zero or negative: beyond what the fixed point holds.
OutOfRange == 0 - NaN
RangeAU == 20

IsNumber(v) == v # NaN /\ v # OutOfRange

\* Days from 1970-01-01 to the civil date y-m-d (proleptic Gregorian).
DaysFromCivil(y, m, d) ==
    LET yy  == IF m <= 2 THEN y - 1 ELSE y
        era == yy \div 400
        yoe == yy - era * 400
        mp  == (m + 9) % 12
        doy == ((153 * mp + 2) \div 5) + d - 1
        doe == yoe * 365 + (yoe \div 4) - (yoe \div 100) + doy
    IN  era * 146097 + doe - 719468

\* new Date('y-m-dThh:00:00Z').getTime(), in time units.
DateUTC(y, m, d, hh) ==
    DaysFromCivil(y, m, d) * TimeUnitsPerDay + (hh * TimeUnitsPerDay) \div 24

ATLAS_ORBITAL_ELEMENTS ==
    [ semiMajorAxis            |-> -263916,
      eccentricity             |-> 6139000,
      perihelionDistance       |-> 1350000,
      argumentOfPerihelion     |-> 128010000,
      longitudeOfAscendingNode |-> 322160000,
      inclination              |-> 175000000,
      perihelionDate           |-> DateUTC(2025, 10, 29, 12),
      discoveryDate            |-> DateUTC(2025, 7, 1, 0) ]

\* period in time units, the other elements in fixed point.
PLANETS ==
    << [name |-> "Mercury", semiMajorAxis |-> 387000,  eccentricity |-> 206000,
        period |-> 880000,   orbitalInclination |-> 7000000],
       [name |-> "Venus",   semiMajorAxis |-> 723000,  eccentricity |-> 7000,
        period |-> 2250000,  orbitalInclination |-> 3400000],
       [name |-> "Earth",   semiMajorAxis |-> 1000000, eccentricity |-> 17000,
        period |-> 3652500,  orbitalInclination |-> 0],
       [name |-> "Mars",    semiMajorAxis |-> 1524000, eccentricity |-> 93000,
        period |-> 6870000,  orbitalInclination |-> 1900000],
       [name |-> "Jupiter", semiMajorAxis |-> 5203000, eccentricity |-> 49000,
        period |-> 43330000, orbitalInclination |-> 1300000] >>

\* daysFromStart in days, as in the source.
KEY_EVENTS ==
    << [name |-> "Discovery",         daysFromStart |-> 0],
       [name |-> "Mars Closest",      daysFromStart |-> 94],
       [name |-> "Solar Conjunction", daysFromStart |-> 112],
       [name |-> "Perihelion",        daysFromStart |-> 120],
       [name |-> "Earth Closest",     daysFromStart |-> 171],
       [name |-> "Jupiter Closest",   daysFromStart |-> 257] >>

AU_SCALE == 2

\* degrees * DEG_TO_RAD
DegToRad(deg) == Quot(MulFP(deg, PI), 180)

(***************************************************************************)
(* Orbital mechanics functions                                             *)
(***************************************************************************)
\* tol = 1e-8 lies below the resolution 1/FP: |d| < tol reads |d| < KeplerTol
\* units, the smallest step the fixed-point iteration can tell from noise.
KeplerTol == 4
MaxIterations == 100

\* The for loop is run in blocks of IterationBlock iterations: a block
\* returns the value reached (x), the iterations performed (n), whether the
\* loop has ended (done: break, cap, or a value no later iteration is
\* followed through) and whether it ended by the break (converged).
IterationBlock == 10

\* Newton iterates of the elliptic equation beyond AngleRange radians are
\* not followed: the result is OutOfRange.
AngleRange == Limb * FP

RECURSIVE EllipseIter(_, _, _, _, _)
EllipseIter(E, M, e, i, stop) ==
    IF i >= stop
    THEN [x |-> E, n |-> i, done |-> i >= MaxIterations, converged |-> FALSE]
    ELSE LET num == E - MulFP(e, Sin(E)) - M
             den == FP - MulFP(e, Cos(E))
         IN  IF Abs(E) > AngleRange \/ Abs(num) \div Limb >= den
             THEN [x |-> OutOfRange, n |-> i, done |-> TRUE, converged |-> FALSE]
             ELSE LET dE == DivFP(num, den)
                  IN  IF Abs(dE) < KeplerTol
                      THEN [x |-> E - dE, n |-> i + 1, done |-> TRUE,
                            converged |-> TRUE]
                      ELSE EllipseIter(E - dE, M, e, i + 1, stop)

RECURSIVE EllipseBlocks(_, _, _, _)
EllipseBlocks(E, M, e, i) ==
    LET r == EllipseIter(E, M, e, i, Min(i + IterationBlock, MaxIterations))
    IN  IF r.done THEN r ELSE EllipseBlocks(r.x, M, e, i + IterationBlock)

\* One call of solveKeplerEllipse: the value returned and how the loop ended.
EllipseRun(M, e) == EllipseBlocks(M, M, e, 0)

solveKeplerEllipse(M, e) == EllipseRun(M, e).x

\* e * sinh(H) and e * cosh(H) are Infinity from |H| = 709 on (doubles end
\* at e^709.78), and Infinity / Infinity is NaN.
SinhOverflow == 709 * FP
\* Where e * sinh(H) and e * cosh(H) would leave 32 bits, numerator and
\* denominator are both divided by cosh(H), which changes neither the
\* quotient nor its sign.  trueAnomalyFromE does so beyond |H / 2| =
\* SinhDirect.
SinhDirect == 4 * FP

\* The step is computed as written while e * cosh(H) stays below
\* DivisorRange (and H within SinhRange, where Sinh and Cosh are defined).
SinhRange == 5 * FP
DivisorRange == 200 * FP

HyperbolaStep(H, M, e) ==
    IF Abs(H) <= SinhRange /\ Cosh(H) < DivFP(DivisorRange, e)
    THEN DivFP(MulFP(e, Sinh(H)) - H - M, MulFP(e, Cosh(H)) - FP)
    ELSE DivFP(MulFP(e, Tanh(H)) - MulFP(H + M, Sech(H)), e - Sech(H))

\* With H = NaN every later step is NaN and |dH| < tol is false: the loop
\* runs to the cap and returns NaN.
\* The same loop with the condition i <= 100: one iteration more.
RECURSIVE HyperbolaIterInclusive(_, _, _, _, _)
HyperbolaIterInclusive(H, M, e, i, stop) ==
    IF i > stop
    THEN [x |-> H, n |-> i, done |-> i >= MaxIterations, converged |-> FALSE]
    ELSE IF Abs(H) >= SinhOverflow
    THEN [x |-> NaN, n |-> MaxIterations, done |-> TRUE, converged |-> FALSE]
    ELSE LET dH == HyperbolaStep(H, M, e)
         IN  IF Abs(dH) < KeplerTol
             THEN [x |-> H - dH, n |-> i + 1, done |-> TRUE, converged |-> TRUE]
             ELSE HyperbolaIterInclusive(H - dH, M, e, i + 1, stop)

RECURSIVE HyperbolaIter(_, _, _, _, _)
HyperbolaIter(H, M, e, i, stop) ==
    IF i >= stop
    THEN [x |-> H, n |-> i, done |-> i >= MaxIterations, converged |-> FALSE]
    ELSE IF Abs(H) >= SinhOverflow
    THEN [x |-> NaN, n |-> MaxIterations, done |-> TRUE, converged |-> FALSE]
    ELSE LET dH == HyperbolaStep(H, M, e)
         IN  IF Abs(dH) < KeplerTol
             THEN [x |-> H - dH, n |-> i + 1, done |-> TRUE, converged |-> TRUE]
             ELSE HyperbolaIter(H - dH, M, e, i + 1, stop)

RECURSIVE HyperbolaBlocks(_, _, _, _)
HyperbolaBlocks(H, M, e, i) ==
    LET r == HyperbolaIter(H, M, e, i, Min(i + IterationBlock, MaxIterations))
    IN  IF r.done THEN r ELSE HyperbolaBlocks(r.x, M, e, i + IterationBlock)

\* One call of solveKeplerHyperbola.
HyperbolaRun(M, e) == HyperbolaBlocks(M, M, e, 0)

solveKeplerHyperbola(M, e) == HyperbolaRun(M, e).x

\* Math.abs(E) / 2
HalfMagnitude(E) == Quot(Abs(E), 2)

\* E / 2
Half(E) == Quot(E, 2)

trueAnomalyFromE(E, e) ==
    IF ~IsNumber(E) THEN E
    ELSE IF e < FP
    THEN LET y == MulFP(Sqrt(FP + e), Sin(Half(E)))
             x == MulFP(Sqrt(FP - e), Cos(Half(E)))
         IN  \* Math.atan2(-0, x) is -pi and Math.atan2(0, x) is pi for
             \* x < 0: a sine below the resolution keeps its sign, which at
             \* E / 2 = +-pi is the sign of E (the doubles nearest to +-pi
             \* lie inside the half turn).
             IF y = 0 /\ x < 0 THEN 2 * Sgn(E) * PI ELSE 2 * Atan2(y, x)
    ELSE IF Abs(Half(E)) <= SinhDirect
    THEN 2 * Atan2(MulFP(Sqrt(e + FP), Sinh(Half(E))),
                   MulFP(Sqrt(e - FP), Cosh(Half(E))))
    ELSE 2 * Atan2(MulFP(Sqrt(e + FP), Tanh(Half(E))), Sqrt(e - FP))

\* The distance without Math.abs on the semi-major axis.
OrbitRadiusSigned(semiMajorAxis, eccentricity, trueAnomaly) ==
    LET den == FP + MulFP(eccentricity, Cos(trueAnomaly))
        num == IF eccentricity < FP
               THEN MulFP(semiMajorAxis, FP - MulFP(eccentricity, eccentricity))
               ELSE MulFP(semiMajorAxis, MulFP(eccentricity, eccentricity) - FP)
    IN  IF den <= 0 \/ Abs(num) >= RangeAU * den THEN OutOfRange
        ELSE DivFP(num, den)

\* Distance from the focus (lines 148-154).
OrbitRadius(semiMajorAxis, eccentricity, trueAnomaly) ==
    LET a   == Abs(semiMajorAxis)
        den == FP + MulFP(eccentricity, Cos(trueAnomaly))
        num == IF eccentricity < FP
               THEN MulFP(a, FP - MulFP(eccentricity, eccentricity))
               ELSE MulFP(a, MulFP(eccentricity, eccentricity) - FP)
    IN  IF den = 0 /\ num = 0 THEN NaN     \* 0 / 0
        ELSE IF den <= 0 \/ num >= RangeAU * den THEN OutOfRange
        ELSE DivFP(num, den)

\* The transform returning (x, y, z) in the order computed, without the
\* exchange of the last two axes.
calculateOrbitalPositionUnswapped(semiMajorAxis, eccentricity, trueAnomaly, argOfPerihelion, longOfAscNode, inclination) ==
    IF ~IsNumber(trueAnomaly) THEN <<trueAnomaly, trueAnomaly, trueAnomaly>>
    ELSE
    LET r == OrbitRadius(semiMajorAxis, eccentricity, trueAnomaly)
    IN  IF ~IsNumber(r) THEN <<r, r, r>>
        ELSE
        LET xOrbital == MulFP(r, Cos(trueAnomaly))
            yOrbital == MulFP(r, Sin(trueAnomaly))
            omega    == DegToRad(argOfPerihelion)
            Omega    == DegToRad(longOfAscNode)
            i        == DegToRad(inclination)
            cosOmega == Cos(Omega)
            sinOmega == Sin(Omega)
            cosomega == Cos(omega)
            sinomega == Sin(omega)
            cosi     == Cos(i)
            sini     == Sin(i)
            x == MulFP(MulFP(cosOmega, cosomega)
                         - MulFP(MulFP(sinOmega, sinomega), cosi), xOrbital)
                 + MulFP(-MulFP(cosOmega, sinomega)
                         - MulFP(MulFP(sinOmega, cosomega), cosi), yOrbital)
            y == MulFP(MulFP(sinOmega, cosomega)
                         + MulFP(MulFP(cosOmega, sinomega), cosi), xOrbital)
                 + MulFP(-MulFP(sinOmega, sinomega)
                         + MulFP(MulFP(cosOmega, cosomega), cosi), yOrbital)
            z == MulFP(MulFP(sinomega, sini), xOrbital)
                 + MulFP(MulFP(cosomega, sini), yOrbital)
        IN  <<x * AU_SCALE, y * AU_SCALE, z * AU_SCALE>>

calculateOrbitalPosition(semiMajorAxis, eccentricity, trueAnomaly, argOfPerihelion, longOfAscNode, inclination) ==
    IF ~IsNumber(trueAnomaly) THEN <<trueAnomaly, trueAnomaly, trueAnomaly>>
    ELSE
    LET r == OrbitRadius(semiMajorAxis, eccentricity, trueAnomaly)
    IN  IF ~IsNumber(r) THEN <<r, r, r>>
        ELSE
        LET xOrbital == MulFP(r, Cos(trueAnomaly))
            yOrbital == MulFP(r, Sin(trueAnomaly))
            omega    == DegToRad(argOfPerihelion)
            Omega    == DegToRad(longOfAscNode)
            i        == DegToRad(inclination)
            cosOmega == Cos(Omega)
            sinOmega == Sin(Omega)
            cosomega == Cos(omega)
            sinomega == Sin(omega)
            cosi     == Cos(i)
            sini     == Sin(i)
            x == MulFP(MulFP(cosOmega, cosomega)
                         - MulFP(MulFP(sinOmega, sinomega), cosi), xOrbital)
                 + MulFP(-MulFP(cosOmega, sinomega)
                         - MulFP(MulFP(sinOmega, cosomega), cosi), yOrbital)
            y == MulFP(MulFP(sinOmega, cosomega)
                         + MulFP(MulFP(cosOmega, sinomega), cosi), xOrbital)
                 + MulFP(-MulFP(sinOmega, sinomega)
                         + MulFP(MulFP(cosOmega, cosomega), cosi), yOrbital)
            z == MulFP(MulFP(sinomega, sini), xOrbital)
                 + MulFP(MulFP(cosomega, sini), yOrbital)
        IN  <<x * AU_SCALE, z * AU_SCALE, y * AU_SCALE>>

\* THREE.Vector3.length()
VectorLength(p) ==
    IF p[1] = NaN THEN NaN
    ELSE IF p[1] = OutOfRange THEN OutOfRange
    ELSE Sqrt(MulFP(p[1], p[1]) + MulFP(p[2], p[2]) + MulFP(p[3], p[3]))

(***************************************************************************)
(* Body state providers                                                    *)
(***************************************************************************)
\* A mean anomaly counted from a quarter turn instead of from perihelion.
PlanetMeanAnomalyOffset(planet, t) ==
    LET turns == Sgn(t) * DivDigits(Abs(t) % planet.period, planet.period,
                                    Abs(t) \div planet.period, 6)
    IN  Rem(MulFP(TWO_PI, turns) + HALF_PI, TWO_PI)

\* A mean motion of one turn in a day more than the planet's period.
PlanetMeanAnomalySlow(planet, t) ==
    LET slow  == planet.period + TimeUnitsPerDay
        turns == Sgn(t) * DivDigits(Abs(t) % slow, slow, Abs(t) \div slow, 6)
    IN  Rem(MulFP(TWO_PI, turns), TWO_PI)

\* The useMemo factory of Planet: position of planet at simulationTime t.
PlanetMeanAnomaly(planet, t) ==
    LET turns == Sgn(t) * DivDigits(Abs(t) % planet.period, planet.period,
                                    Abs(t) \div planet.period, 6)
    IN  Rem(MulFP(TWO_PI, turns), TWO_PI)

PlanetPosition(planet, t) ==
    LET M  == PlanetMeanAnomaly(planet, t)
        E  == solveKeplerEllipse(M, planet.eccentricity)
        nu == trueAnomalyFromE(E, planet.eccentricity)
    IN  calculateOrbitalPosition(planet.semiMajorAxis, planet.eccentricity,
                                 nu, 0, 0, planet.orbitalInclination)

\* new Date('2025-07-01').getTime(): a date-only string is UTC midnight.
EpochDate == DateUTC(2025, 7, 1, 0)

\* (currentTime - perihelionTime) / (24 * 60 * 60 * 1000), in time units.
DaysSincePerihelion(t) ==
    (EpochDate + t) - ATLAS_ORBITAL_ELEMENTS.perihelionDate

\* n * 24 * 60 * 60 with n = sqrt(mu / (a * 149597870.7)^3), mu =
\* 132712440041.93938 and a = 0.26391591751781: 0.126877 rad/day.
MeanMotionPerDay == 126877

CometMeanAnomaly(t) ==
    LET d == DaysSincePerihelion(t)
    IN  Sgn(d) * ((Abs(d) \div TimeUnitsPerDay) * MeanMotionPerDay
                  + (((Abs(d) % TimeUnitsPerDay) * MeanMotionPerDay)
                       \div TimeUnitsPerDay))

\* sqrt(mu / 149597870.7) with mu = 132712440041.93938: 29.784692 km/s.
SqrtMuPerAU == 29784692

\* Math.sqrt(mu * (2 / (r * 149597870.7) + 1 / (a * 149597870.7))) for r in
\* AU, computed as sqrt(mu / 149597870.7) * sqrt(2 / r + 1 / a): the same
\* number, with every intermediate value within 32 bits.
VisViva(r) ==
    MulFP(SqrtMuPerAU,
          Sqrt(DivFP(2 * FP, r)
                 + DivFP(FP, Abs(ATLAS_ORBITAL_ELEMENTS.semiMajorAxis))))

\* The divisor of line 346.
MetresPerKm == 1000

\* The useMemo factory of Comet.
CometState(t) ==
    LET M   == CometMeanAnomaly(t)
        H   == solveKeplerHyperbola(M, ATLAS_ORBITAL_ELEMENTS.eccentricity)
        nu  == trueAnomalyFromE(H, ATLAS_ORBITAL_ELEMENTS.eccentricity)
        pos == calculateOrbitalPosition(
                   ATLAS_ORBITAL_ELEMENTS.semiMajorAxis,
                   ATLAS_ORBITAL_ELEMENTS.eccentricity,
                   nu,
                   ATLAS_ORBITAL_ELEMENTS.argumentOfPerihelion,
                   ATLAS_ORBITAL_ELEMENTS.longitudeOfAscendingNode,
                   ATLAS_ORBITAL_ELEMENTS.inclination)
        len == VectorLength(pos)
        r   == IF IsNumber(len) THEN len \div AU_SCALE ELSE len
        v   == IF IsNumber(r) THEN Quot(VisViva(r), MetresPerKm) ELSE r
    IN  [position |-> pos, distanceFromSun |-> r, velocity |-> v]

\* The branch an eccentricity selects in trueAnomalyFromE (line 123) and in
\* calculateOrbitalPosition (line 150): both test e < 1.
Regime(e) == IF e < FP THEN "elliptical" ELSE "hyperbolic"

\* The functions a render of a body calls: the solver, the eccentricity
\* handed to it and the branches the two later functions take.
PlanetChain(planet) ==
    [solver        |-> "solveKeplerEllipse",
     eccentricity  |-> planet.eccentricity,
     anomalyBranch |-> Regime(planet.eccentricity),
     radiusBranch  |-> Regime(planet.eccentricity)]

\* A comet whose anomaly is solved for by the elliptical solver.
CometChainElliptic ==
    [solver        |-> "solveKeplerEllipse",
     eccentricity  |-> ATLAS_ORBITAL_ELEMENTS.eccentricity,
     anomalyBranch |-> Regime(ATLAS_ORBITAL_ELEMENTS.eccentricity),
     radiusBranch  |-> Regime(ATLAS_ORBITAL_ELEMENTS.eccentricity)]

CometChain ==
    [solver        |-> "solveKeplerHyperbola",
     eccentricity  |-> ATLAS_ORBITAL_ELEMENTS.eccentricity,
     anomalyBranch |-> Regime(ATLAS_ORBITAL_ELEMENTS.eccentricity),
     radiusBranch  |-> Regime(ATLAS_ORBITAL_ELEMENTS.eccentricity)]

(***************************************************************************)
(* Simulation clock: the state of the SpaceSimulation component            *)
(***************************************************************************)
VARIABLES
    simulationTime,    \* useState(0): time units from the start date
    isPlaying,         \* useState(true)
    speed,             \* useState(1), in tenths
    cameraView,        \* useState('side')
    zoomLevel,         \* useState(1), see ZoomValue
    presentDayOffset,  \* useMemo(..., []): whole days from the start date to today
    lastTimeRef,       \* useRef(Date.now()), ms
    now,               \* the wall clock Date.now() reads, ms since the mount
    firstFramePending, \* the frame the last effect run requested (animationId)
                       \* has not fired yet
    staleLoops,        \* closure [isPlaying, speed] |-> number of callback chains
                       \* of earlier effect runs that are still requesting frames
    planetMemo,        \* per Planet: the simulationTime its position was computed for
    cometMemo,         \* Comet: the simulationTime its state was computed for
    call               \* a call of an orbital mechanics function on its own:
                       \* [fn, args, returned, result]

vars == <<simulationTime, isPlaying, speed, cameraView, zoomLevel,
          presentDayOffset, lastTimeRef, now, firstFramePending, staleLoops,
          planetMemo, cometMemo, call>>

clockVars == <<simulationTime, isPlaying, speed>>
viewVars == <<cameraView, zoomLevel>>
loopVars == <<lastTimeRef, firstFramePending, staleLoops>>

\* Bounds of the model.
MaxClockSteps == 2        \* the wall clock advances at most this many steps
MaxStaleLoops == 1        \* stale callback chains kept alive at once
ClockStepMs == 500        \* one step of the wall clock, ms

\* Range inputs of the control panel.
SpeedMin == 1             \* min="0.1"
SpeedMax == 100           \* max="10"
SliderMin == -30
SliderMax == 300

SpeedChoices == {SpeedMin, 10, SpeedMax}
ScrubChoices == {SliderMin, SliderMax}
CameraViews == {"top", "side", "angle"}
\* Date.now() at mount: before and after the middle of a day.
TodayChoices == {DateUTC(2025, 9, 1, 7), DateUTC(2026, 11, 5, 15)}

Closures == [isPlaying : BOOLEAN, speed : SpeedChoices]

\* Math.round of a number of time units to whole days.
RoundToDays(u) == (2 * u + TimeUnitsPerDay) \div (2 * TimeUnitsPerDay)

\* zoomLevel = ZoomAnchor * 1.3^steps, kept exact: anchor is the value the
\* steps are counted from (the initial 1, or a clamp that was hit).
ZoomFactor == 1300000
ZoomMax == 5
ZoomMin == 300000

ZoomAnchor(z) ==
    IF z.anchor = "max" THEN ZoomMax * FP
    ELSE IF z.anchor = "min" THEN ZoomMin
    ELSE FP

RECURSIVE ZoomTimes(_, _)
ZoomTimes(v, k) ==
    IF k = 0 THEN v
    ELSE IF k > 0 THEN ZoomTimes(MulFP(v, ZoomFactor), k - 1)
    ELSE ZoomTimes(DivFP(v, ZoomFactor), k + 1)

ZoomValue(z) == ZoomTimes(ZoomAnchor(z), z.steps)

\* A zoom in without the upper clamp: prev * 1.3
zoomInValueUnclamped(prev) ==
    [anchor |-> prev.anchor, steps |-> prev.steps + 1]

\* Math.min(prev * 1.3, 5)
zoomInValue(prev) ==
    LET next == [anchor |-> prev.anchor, steps |-> prev.steps + 1]
    IN  IF ZoomValue(next) >= ZoomMax * FP THEN [anchor |-> "max", steps |-> 0]
        ELSE next

\* Math.max(prev / 1.3, 0.3)
zoomOutValue(prev) ==
    LET next == [anchor |-> prev.anchor, steps |-> prev.steps - 1]
    IN  IF ZoomValue(next) <= ZoomMin THEN [anchor |-> "min", steps |-> 0]
        ELSE next

\* A memo whose dependency list lacks simulationTime: the factory runs once.
RenderMemoStale(deps, t) == deps

\* useMemo(factory, [planet, simulationTime]) / useMemo(factory, [simulationTime]):
\* the cell after a render with simulationTime = t.
RenderMemo(deps, t) == IF deps = t THEN deps ELSE t

\* Every state change re-renders the scene with the new simulationTime.
Render ==
    /\ cometMemo' = RenderMemo(cometMemo, simulationTime')
    /\ planetMemo' = [i \in DOMAIN PLANETS |->
                         RenderMemo(planetMemo[i], simulationTime')]

\* What the scene shows.
DisplayedPlanet(i) == PlanetPosition(PLANETS[i], planetMemo[i])
DisplayedComet == CometState(cometMemo)

\* No function is called on its own while the component runs.
NoCall == [fn |-> "none", args |-> <<>>, returned |-> FALSE, result |-> [x |-> 0]]

Init ==
    /\ call = NoCall
    /\ simulationTime = 0
    /\ isPlaying = TRUE
    /\ speed = 10
    /\ cameraView = "side"
    /\ zoomLevel = [anchor |-> "initial", steps |-> 0]
    /\ \E today \in TodayChoices :
           presentDayOffset = RoundToDays(today - EpochDate)
    /\ now = 0
    /\ lastTimeRef = 0
    /\ firstFramePending = TRUE
    /\ staleLoops = [c \in Closures |-> 0]
    /\ planetMemo = [i \in DOMAIN PLANETS |-> 0]
    /\ cometMemo = 0

StaleCount == LET Sum[S \in SUBSET Closures] ==
                      IF S = {} THEN 0
                      ELSE LET c == CHOOSE c \in S : TRUE
                           IN  staleLoops[c] + Sum[S \ {c}]
              IN  Sum[Closures]

\* The perihelionInfo useMemo (lines 582-590): the rounded number of days to
\* the perihelion date and the status the HUD shows.
perihelionInfo(t) ==
    LET daysDiff ==
            RoundToDays(ATLAS_ORBITAL_ELEMENTS.perihelionDate - (EpochDate + t))
    IN  [daysDiff |-> daysDiff,
         text |-> IF daysDiff > 0 THEN "days to perihelion"
                  ELSE IF daysDiff < 0 THEN "days after perihelion"
                  ELSE "AT PERIHELION"]

\* Time passes between two events.
AdvanceClock ==
    /\ now < MaxClockSteps * ClockStepMs
    /\ now' = now + ClockStepMs
    /\ UNCHANGED <<clockVars, viewVars, loopVars, presentDayOffset, call,
                   planetMemo, cometMemo>>

\* A tick that stops at the end of the timeline slider.
animateTimeClamped(playing, s) ==
    IF playing
    THEN Min(simulationTime + (now - lastTimeRef) * s, SliderMax * TimeUnitsPerDay)
    ELSE simulationTime

\* A tick whose delta is taken as lastTimeRef.current - now.
animateTimeReversed(playing, s) ==
    IF playing THEN simulationTime + (lastTimeRef - now) * s
    ELSE simulationTime

\* A tick that sets the time from the wall clock instead of adding to it.
animateTimeAbsolute(playing, s) ==
    IF playing THEN now * s ELSE simulationTime

\* The body of animate, in the closure of a render with isPlaying = playing
\* and speed = s (lines 559-564): the new simulationTime and lastTimeRef.
animateTime(playing, s) ==
    IF playing THEN simulationTime + (now - lastTimeRef) * s
    ELSE simulationTime

animateLastTime(playing) == IF playing THEN now ELSE lastTimeRef

\* The frame requested by the last effect run fires: animate of the current
\* render runs and requests the next frame itself.
FirstFrame ==
    /\ firstFramePending
    /\ simulationTime' = animateTime(isPlaying, speed)
    /\ lastTimeRef' = animateLastTime(isPlaying)
    /\ firstFramePending' = FALSE
    /\ UNCHANGED <<isPlaying, speed, viewVars, presentDayOffset, call, now, staleLoops>>
    /\ Render

\* A frame that animate of the current render requested itself fires.
NextFrame ==
    /\ ~firstFramePending
    /\ simulationTime' = animateTime(isPlaying, speed)
    /\ lastTimeRef' = animateLastTime(isPlaying)
    /\ UNCHANGED <<isPlaying, speed, viewVars, presentDayOffset, call, now,
                   firstFramePending, staleLoops>>
    /\ Render

\* A frame requested by animate of an earlier render fires: the callback
\* still sees the isPlaying and speed of its own render.
StaleFrame(c) ==
    /\ staleLoops[c] > 0
    /\ simulationTime' = animateTime(c.isPlaying, c.speed)
    /\ lastTimeRef' = animateLastTime(c.isPlaying)
    /\ UNCHANGED <<isPlaying, speed, viewVars, presentDayOffset, call, now,
                   firstFramePending, staleLoops>>
    /\ Render

\* The effect of lines 568-572 runs again because animate changed: the
\* cleanup cancels animationId, the id of the first frame only; a chain whose
\* first frame has fired holds another id and keeps running.
CleanupStale ==
    IF firstFramePending THEN staleLoops
    ELSE [staleLoops EXCEPT ![[isPlaying |-> isPlaying, speed |-> speed]] = @ + 1]

\* An effect run that leaves lastTimeRef.current as the last tick set it.
RerunEffectKeepingLastTime ==
    /\ staleLoops' = CleanupStale
    /\ lastTimeRef' = lastTimeRef
    /\ firstFramePending' = TRUE

RerunEffect ==
    /\ staleLoops' = CleanupStale
    /\ lastTimeRef' = now
    /\ firstFramePending' = TRUE

\* The stale chains are unbounded in the program; the model keeps MaxStaleLoops.
MayRerunEffect == firstFramePending \/ StaleCount < MaxStaleLoops

\* A toggle that also rewinds the clock to the start date.
TogglePlayRewinding ==
    /\ MayRerunEffect
    /\ isPlaying' = ~isPlaying
    /\ simulationTime' = 0
    /\ RerunEffect
    /\ UNCHANGED <<speed, viewVars, presentDayOffset, call, now>>
    /\ Render

\* onClick of the play button: setIsPlaying(!isPlaying)
TogglePlay ==
    /\ MayRerunEffect
    /\ isPlaying' = ~isPlaying
    /\ RerunEffect
    /\ UNCHANGED <<simulationTime, speed, viewVars, presentDayOffset, call, now>>
    /\ Render

\* onChange of the speed slider: setSpeed(parseFloat(e.target.value))
SetSpeed(s) ==
    /\ MayRerunEffect
    /\ s # speed
    /\ speed' = s
    /\ RerunEffect
    /\ UNCHANGED <<simulationTime, isPlaying, viewVars, presentDayOffset, call, now>>
    /\ Render

\* A slider value added to the running time instead of replacing it.
ScrubRelative(T) ==
    /\ simulationTime' = simulationTime + T * TimeUnitsPerDay
    /\ UNCHANGED <<isPlaying, speed, viewVars, presentDayOffset, call, now, loopVars>>
    /\ Render

\* onChange of the timeline slider: setSimulationTime(parseFloat(e.target.value))
Scrub(T) ==
    /\ simulationTime' = T * TimeUnitsPerDay
    /\ UNCHANGED <<isPlaying, speed, viewVars, presentDayOffset, call, now, loopVars>>
    /\ Render

\* onClick of a key event button: setSimulationTime(event.daysFromStart)
JumpToEvent(idx) ==
    /\ simulationTime' = KEY_EVENTS[idx].daysFromStart * TimeUnitsPerDay
    /\ UNCHANGED <<isPlaying, speed, viewVars, presentDayOffset, call, now, loopVars>>
    /\ Render

goToPresentDay ==
    /\ simulationTime' = presentDayOffset * TimeUnitsPerDay
    /\ UNCHANGED <<isPlaying, speed, viewVars, presentDayOffset, call, now, loopVars>>
    /\ Render

zoomIn ==
    /\ zoomLevel' = zoomInValue(zoomLevel)
    /\ UNCHANGED <<clockVars, cameraView, presentDayOffset, call, now, loopVars>>
    /\ Render

zoomOut ==
    /\ zoomLevel' = zoomOutValue(zoomLevel)
    /\ UNCHANGED <<clockVars, cameraView, presentDayOffset, call, now, loopVars>>
    /\ Render

SetCameraView(v) ==
    /\ cameraView' = v
    /\ UNCHANGED <<clockVars, zoomLevel, presentDayOffset, call, now, loopVars>>
    /\ Render

Frame == FirstFrame \/ NextFrame \/ \E c \in Closures : StaleFrame(c)

ClockNext ==
    \/ AdvanceClock
    \/ FirstFrame
    \/ NextFrame
    \/ \E c \in Closures : StaleFrame(c)
    \/ TogglePlay
    \/ \E s \in SpeedChoices : SetSpeed(s)
    \/ \E T \in ScrubChoices : Scrub(T)
    \/ \E idx \in DOMAIN KEY_EVENTS : JumpToEvent(idx)
    \/ goToPresentDay

ViewNext ==
    \/ zoomIn
    \/ zoomOut
    \/ \E v \in CameraViews : SetCameraView(v)

Next == ClockNext \/ ViewNext

Spec == Init /\ [][Next]_vars

\* The clock alone: the view stays as mounted.
SpecClock == Init /\ [][ClockNext]_vars


\* The control panel without the passage of time: no frame fires.
ViewSpecNext ==
    \/ zoomIn
    \/ zoomOut
    \/ \E v \in CameraViews : SetCameraView(v)
    \/ TogglePlay
    \/ \E s \in SpeedChoices : SetSpeed(s)
    \/ \E T \in ScrubChoices : Scrub(T)
    \/ \E idx \in DOMAIN KEY_EVENTS : JumpToEvent(idx)
    \/ goToPresentDay

SpecView == Init /\ [][ViewSpecNext]_vars

\* The comet's state over the times the clock can show: the slider's first
\* day is the earliest, ticks reach every later time.
SampleLastDay == 400      \* the daily samples end here
LongRunDay == 6000        \* a time reached after ten minutes at speed 10

\* simulationTime of the perihelion date.
PerihelionTime == ATLAS_ORBITAL_ELEMENTS.perihelionDate - EpochDate

\* The comet's state at the perihelion instant.
PerihelionState == CometState(PerihelionTime)

CometTimes ==
    {d * TimeUnitsPerDay : d \in SliderMin..SampleLastDay}
        \cup {PerihelionTime, LongRunDay * TimeUnitsPerDay}

\* The component with the clock at a sampled time, the scene rendered for
\* it; wall-clock readings count from this moment.
CometInit ==
    /\ call = NoCall
    /\ simulationTime \in CometTimes
    /\ isPlaying = TRUE
    /\ speed = 10
    /\ cameraView = "side"
    /\ zoomLevel = [anchor |-> "initial", steps |-> 0]
    /\ \E today \in TodayChoices :
           presentDayOffset = RoundToDays(today - EpochDate)
    /\ now = 0
    /\ lastTimeRef = 0
    /\ firstFramePending = FALSE
    /\ staleLoops = [c \in Closures |-> 0]
    /\ planetMemo = [i \in DOMAIN PLANETS |-> simulationTime]
    /\ cometMemo = simulationTime

CometNext ==
    \/ \E T \in ScrubChoices : Scrub(T)
    \/ \E idx \in DOMAIN KEY_EVENTS : JumpToEvent(idx)
    \/ goToPresentDay

SpecComet == CometInit /\ [][CometNext]_vars

(***************************************************************************)
(* The orbital mechanics functions called on their own                     *)
(***************************************************************************)
\* Anomalies are sampled every eighth of pi, GridSteps steps to either side
\* of 0, and at a few values close to a full turn.
GridSteps == 16
GridAngle(k) == (k * PI) \div 8
AnomalyGrid == {GridAngle(k) : k \in (0 - GridSteps)..GridSteps}
NearFullTurn == {10000, 5990000, 6200000}
\* Mean anomalies of a hyperbolic orbit far from perihelion.
LargeAnomalies == {s * M * FP : s \in {0 - 1, 1}, M \in {50, 150, 750}}

EllipseEccentricities == {0, 17000, 206000, 500000, 900000, 980000, 990000}
HyperbolaEccentricities ==
    {1020000, 1500000, ATLAS_ORBITAL_ELEMENTS.eccentricity}

SemiMajorAxes == {1000000, 5203000, ATLAS_ORBITAL_ELEMENTS.semiMajorAxis,
                  0 - ATLAS_ORBITAL_ELEMENTS.semiMajorAxis}
TrueAnomalies == {GridAngle(k) : k \in (0 - 8)..8}
Orientations ==
    {<<0, 0, 0>>,
     <<ATLAS_ORBITAL_ELEMENTS.argumentOfPerihelion,
       ATLAS_ORBITAL_ELEMENTS.longitudeOfAscendingNode,
       ATLAS_ORBITAL_ELEMENTS.inclination>>}

\* Times at which a planet is rendered: both ends of the timeline and
\* fractions of its period to either side of 0.
PlanetTimes(planet) ==
    {SliderMin * TimeUnitsPerDay, SliderMax * TimeUnitsPerDay, 0 - 1, 0, 1}
    \cup {(k * planet.period) \div 8 : k \in (0 - 8)..8}

\* OrbitPath: segments = 128 unless given, and SpaceScene gives none.
DefaultSegments == 128

\* The points useMemo of OrbitPath (lines 276-286): for i = 0 .. segments
\* the true anomaly, the radius and the point pushed.
OrbitPath(semiMajorAxis, eccentricity, segments) ==
    [i \in 0..segments |->
        LET nu == (i * 2 * PI) \div segments     \* (i / segments) * 2 * Math.PI
            r  == DivFP(MulFP(semiMajorAxis,
                              FP - MulFP(eccentricity, eccentricity)),
                        FP + MulFP(eccentricity, Cos(nu)))
            x  == MulFP(r, Cos(nu))
            z  == MulFP(r, Sin(nu))
        IN  [nu |-> nu, r |-> r, point |-> <<x * AU_SCALE, 0, z * AU_SCALE>>]]

\* Math.acos
Acos(x) == Atan2(Sqrt(FP - MulFP(x, x)), x)

\* CometOrbitPath: the loop runs from -100 to 100 and keeps 0 < r < 20.
PathHalfSteps == 100
DisplayRangeAU == 20

\* nuMax = Math.acos(-1 / e) * 0.95
CometPathLimit ==
    MulFP(Acos(DivFP(0 - FP, ATLAS_ORBITAL_ELEMENTS.eccentricity)), 950000)

\* True anomalies counted from one end of the range instead of its middle.
CometPathAnomalyOneSided(i) ==
    Quot((i + PathHalfSteps) * CometPathLimit, PathHalfSteps)

\* nu = (i / 100) * nuMax
CometPathAnomaly(i) == Quot(i * CometPathLimit, PathHalfSteps)

\* The points useMemo of CometOrbitPath (lines 430-455): for each i the
\* true anomaly, the radius of line 440, whether the point passes the test
\* of line 442 and, if so, the point pushed.
CometOrbitPath ==
    [i \in (0 - PathHalfSteps)..PathHalfSteps |->
        LET e  == ATLAS_ORBITAL_ELEMENTS.eccentricity
            nu == CometPathAnomaly(i)
            r  == OrbitRadius(ATLAS_ORBITAL_ELEMENTS.semiMajorAxis, e, nu)
            emitted == IsNumber(r) /\ r > 0 /\ r < DisplayRangeAU * FP
        IN  [nu |-> nu, r |-> r, emitted |-> emitted,
             point |-> IF emitted
                       THEN calculateOrbitalPosition(
                                ATLAS_ORBITAL_ELEMENTS.semiMajorAxis, e, nu,
                                ATLAS_ORBITAL_ELEMENTS.argumentOfPerihelion,
                                ATLAS_ORBITAL_ELEMENTS.longitudeOfAscendingNode,
                                ATLAS_ORBITAL_ELEMENTS.inclination)
                       ELSE <<>>]]

\* The calls made: the function and its arguments.
Calls ==
    {[fn |-> "solveKeplerEllipse", args |-> <<M, e>>] :
        M \in AnomalyGrid \cup NearFullTurn, e \in EllipseEccentricities}
    \cup {[fn |-> "solveKeplerHyperbola", args |-> <<M, e>>] :
        M \in AnomalyGrid \cup LargeAnomalies, e \in HyperbolaEccentricities}
    \cup {[fn |-> "trueAnomalyFromE", args |-> <<X, e>>] :
        X \in AnomalyGrid,
        e \in EllipseEccentricities \cup HyperbolaEccentricities \cup {FP}}
    \cup {[fn |-> "calculateOrbitalPosition",
           args |-> <<a, e, nu, o[1], o[2], o[3]>>] :
        a \in SemiMajorAxes, e \in {0, 206000, 990000, FP, 1500000, 6139000},
        nu \in TrueAnomalies, o \in Orientations}
    \cup {[fn |-> "CometOrbitPath", args |-> <<>>]}
    \cup {[fn |-> "OrbitPath", args |-> <<i, DefaultSegments>>] :
        i \in DOMAIN PLANETS}
    \cup UNION {{[fn |-> "Planet", args |-> <<i, t>>] :
                    t \in PlanetTimes(PLANETS[i])} : i \in DOMAIN PLANETS}

componentVars == <<simulationTime, isPlaying, speed, cameraView, zoomLevel,
                   presentDayOffset, lastTimeRef, now, firstFramePending,
                   staleLoops, planetMemo, cometMemo>>

\* The component as mounted, and one call about to be made.
FunctionInit ==
    /\ \E c \in Calls :
           call = [fn |-> c.fn, args |-> c.args, returned |-> FALSE,
                   result |-> NoCall.result]
    /\ simulationTime = 0
    /\ isPlaying = TRUE
    /\ speed = 10
    /\ cameraView = "side"
    /\ zoomLevel = [anchor |-> "initial", steps |-> 0]
    /\ \E today \in TodayChoices :
           presentDayOffset = RoundToDays(today - EpochDate)
    /\ now = 0
    /\ lastTimeRef = 0
    /\ firstFramePending = TRUE
    /\ staleLoops = [c \in Closures |-> 0]
    /\ planetMemo = [i \in DOMAIN PLANETS |-> 0]
    /\ cometMemo = 0

Return(result) ==
    /\ call' = [call EXCEPT !.returned = TRUE, !.result = result]
    /\ UNCHANGED componentVars

\* The root of E - e sin(E) = M: Newton's iteration started at pi converges
\* for every M and every e < 1.
EllipseRoot(M, e) == EllipseBlocks(PI, M, e, 0).x

\* What a call of solveKeplerEllipse can return.  A run whose iterates stay
\* within AngleRange returns what EllipseRun computes.  A run that leaves
\* it is not followed: in double precision such a run either comes back and
\* stops by the break at the root at some later iteration, or it is still
\* away from the root when the cap is reached.
EllipseOutcomes(M, e) ==
    LET run == EllipseRun(M, e)
    IN  IF run.x # OutOfRange THEN {run}
        ELSE {[x |-> EllipseRoot(M, e), n |-> k, done |-> TRUE,
               converged |-> TRUE] : k \in (run.n + 1)..MaxIterations}
             \cup {[x |-> OutOfRange, n |-> MaxIterations, done |-> TRUE,
                    converged |-> FALSE]}

ReturnSolveKeplerEllipse ==
    /\ call.fn = "solveKeplerEllipse" /\ ~call.returned
    /\ \E run \in EllipseOutcomes(call.args[1], call.args[2]) : Return(run)

ReturnSolveKeplerHyperbola ==
    /\ call.fn = "solveKeplerHyperbola" /\ ~call.returned
    /\ Return(HyperbolaRun(call.args[1], call.args[2]))

\* The conversion of an anomaly and of its negative.
ReturnTrueAnomaly ==
    /\ call.fn = "trueAnomalyFromE" /\ ~call.returned
    /\ Return([nu      |-> trueAnomalyFromE(call.args[1], call.args[2]),
               negated |-> trueAnomalyFromE(0 - call.args[1], call.args[2])])

\* The vector returned and the local r it was computed from.
ReturnOrbitalPosition ==
    /\ call.fn = "calculateOrbitalPosition" /\ ~call.returned
    /\ LET a == call.args
       IN  Return([position |-> calculateOrbitalPosition(a[1], a[2], a[3],
                                                         a[4], a[5], a[6]),
                   r        |-> OrbitRadius(a[1], a[2], a[3])])

\* A planet rendered at a time and one period later.
ReturnPlanet ==
    /\ call.fn = "Planet" /\ ~call.returned
    /\ LET planet == PLANETS[call.args[1]]
           t      == call.args[2]
       IN  Return([position     |-> PlanetPosition(planet, t),
                   periodLater  |-> PlanetPosition(planet, t + planet.period)])

\* The orbit line of a planet, as SpaceScene renders it.
ReturnOrbitPath ==
    /\ call.fn = "OrbitPath" /\ ~call.returned
    /\ LET planet == PLANETS[call.args[1]]
       IN  Return([samples |-> OrbitPath(planet.semiMajorAxis,
                                         planet.eccentricity, call.args[2])])

ReturnCometOrbitPath ==
    /\ call.fn = "CometOrbitPath" /\ ~call.returned
    /\ Return([samples |-> CometOrbitPath])

FunctionNext ==
    \/ ReturnCometOrbitPath
    \/ ReturnOrbitPath
    \/ ReturnSolveKeplerEllipse
    \/ ReturnSolveKeplerHyperbola
    \/ ReturnTrueAnomaly
    \/ ReturnOrbitalPosition
    \/ ReturnPlanet

SpecFunctions == FunctionInit /\ [][FunctionNext]_vars

(***************************************************************************)
(* Properties                                                              *)
(***************************************************************************)

\* C1: the clock only ticks while running: in a state where isPlaying is
\* false, no animation-frame callback changes simulationTime.
C1_PausedFrameKeepsTime ==
    [][(~isPlaying /\ Frame) => simulationTime' = simulationTime]_vars

\* C2: body positions are a function of the current simulationTime only:
\* in every state the displayed position of the comet and of each planet
\* equals the position computed from the current simulationTime, however that
\* time was reached (a cell filled for exactly this time shows it by
\* definition; a cell filled for another time must show the same position).
C2_PositionsFollowTime ==
    /\ \/ cometMemo = simulationTime
       \/ DisplayedComet.position = CometState(simulationTime).position
    /\ \A i \in DOMAIN PLANETS :
           \/ planetMemo[i] = simulationTime
           \/ DisplayedPlanet(i) = PlanetPosition(PLANETS[i], simulationTime)

\* C2 witness: a time reached by two ticks at the highest speed after a
\* speed change, with the comet shown away from its position at mount.
C2_TickedSceneShown ==
    /\ speed = SpeedMax
    /\ ~firstFramePending
    /\ simulationTime = 2 * ClockStepMs * SpeedMax
    /\ cometMemo = simulationTime
    /\ DisplayedComet.position # CometState(0).position
    /\ DisplayedPlanet(3) = PlanetPosition(PLANETS[3], 2 * ClockStepMs * SpeedMax)

\* C3: a scrub to T and a jump to an event with offset d are absolute sets:
\* afterwards simulationTime is exactly T (resp. d) whatever it was before,
\* running or paused, and isPlaying, speed, zoomLevel and cameraView are as
\* before.
C3_AbsoluteSet ==
    [][/\ \A T \in ScrubChoices :
              Scrub(T) => /\ simulationTime' = T * TimeUnitsPerDay
                          /\ UNCHANGED <<isPlaying, speed, zoomLevel, cameraView>>
       /\ \A idx \in DOMAIN KEY_EVENTS :
              JumpToEvent(idx) =>
                  /\ simulationTime' = KEY_EVENTS[idx].daysFromStart * TimeUnitsPerDay
                  /\ UNCHANGED <<isPlaying, speed, zoomLevel, cameraView>>]_vars

\* C3 witness: paused, zoomed in to the clamp, seen from the top, at another
\* speed, the clock was scrubbed to the end of the timeline.
C3_ScrubbedWhilePaused ==
    /\ simulationTime = SliderMax * TimeUnitsPerDay
    /\ ~isPlaying
    /\ speed = SpeedMin
    /\ zoomLevel.anchor = "max"
    /\ cameraView = "top"

\* A frame of the chain the last effect run started.
CurrentFrame == FirstFrame \/ NextFrame

\* C4: a speed change takes effect on the next tick: while running at speed
\* s, every tick (a frame callback that changes simulationTime) advances it
\* by the time since the previous tick times s, never by an earlier speed.
C4_TickUsesCurrentSpeed ==
    [][(isPlaying /\ Frame /\ simulationTime' # simulationTime)
           => simulationTime' = simulationTime + (now - lastTimeRef) * speed]_vars

\* C5: running/paused and simulationTime are orthogonal: the toggle flips
\* isPlaying and leaves simulationTime and speed as they are; a speed change
\* sets speed and leaves simulationTime and isPlaying as they are.
C5_OrthogonalAxes ==
    [][/\ TogglePlay => /\ isPlaying' = ~isPlaying
                        /\ UNCHANGED <<simulationTime, speed>>
       /\ \A s \in SpeedChoices :
              SetSpeed(s) => /\ speed' = s
                             /\ UNCHANGED <<simulationTime, isPlaying>>]_vars

\* C5 witness: the speed was set to the lowest value, the clock ran for two
\* steps and was paused by the toggle: the time the ticks reached is still
\* there.
C5_PausedAfterRunning ==
    /\ ~isPlaying
    /\ firstFramePending
    /\ speed = SpeedMin
    /\ lastTimeRef = now
    /\ now = 2 * ClockStepMs
    /\ simulationTime = 2 * ClockStepMs * SpeedMin

\* C6: the clock has no terminal state and never clamps: whenever isPlaying
\* holds a frame of the current chain is enabled and adds the elapsed time
\* times speed, also past the end of the timeline slider, and the
\* present-day jump sets simulationTime to the whole-day offset of today
\* from the start date, inside the slider's range or not.
C6_NoTerminalStateNoClamp ==
    [][/\ isPlaying => ENABLED CurrentFrame
       /\ (isPlaying /\ CurrentFrame)
              => simulationTime' = simulationTime + (now - lastTimeRef) * speed
       /\ goToPresentDay
              => /\ simulationTime' = presentDayOffset * TimeUnitsPerDay
                 /\ \E today \in TodayChoices :
                        /\ 2 * Abs(today - EpochDate - simulationTime') <= TimeUnitsPerDay
                        /\ simulationTime' % TimeUnitsPerDay = 0]_vars

\* C6 witness: the clock ticked on from a present day that lies beyond the
\* timeline slider's range.
C6_TickedPastSlider ==
    /\ isPlaying
    /\ presentDayOffset > SliderMax
    /\ lastTimeRef = now
    /\ simulationTime = presentDayOffset * TimeUnitsPerDay + 2 * ClockStepMs * speed

\* C7: simulationTime advances monotonically unless the user overrides it:
\* speed stays within the slider's range, every frame callback leaves
\* simulationTime at or above its value before, and a step that decreases it
\* is a scrub or a jump.
C7_MonotoneUnlessOverridden ==
    [][/\ speed \in SpeedMin..SpeedMax /\ speed' \in SpeedMin..SpeedMax
       /\ Frame => simulationTime' >= simulationTime
       /\ simulationTime' < simulationTime
              => \/ \E T \in ScrubChoices : Scrub(T)
                 \/ \E idx \in DOMAIN KEY_EVENTS : JumpToEvent(idx)
                 \/ goToPresentDay]_vars

\* C7 witness: a tick at the lowest speed moved the clock forward from the
\* start of the timeline.
C7_TickedAtLowestSpeed ==
    /\ speed = SpeedMin
    /\ lastTimeRef = now
    /\ simulationTime = SliderMin * TimeUnitsPerDay + ClockStepMs * SpeedMin

\* C8: stopping the loop cancels it completely: once the effect cleanup has
\* run, no frame of the chain it stopped fires again.
C8_StoppedChainNeverRuns ==
    [][\A c \in Closures : ~StaleFrame(c)]_vars

\* C9: at the perihelion instant (daysSincePerihelion = 0) the distance from
\* the sun computed for the comet equals perihelionDistance, 1.35 AU, within
\* the solver's tolerance.
C9_PerihelionDistance ==
    simulationTime = PerihelionTime
        => Abs(DisplayedComet.distanceFromSun
                   - ATLAS_ORBITAL_ELEMENTS.perihelionDistance) <= KeplerTol

\* C10: the comet's distance from the sun is minimal exactly at the
\* simulationTime of the perihelion date: at every time it is a number at
\* least the distance at that instant, a day closer to perihelion it is no
\* larger (decreasing before, increasing after).
C10_MinimalAtPerihelion ==
    \A r \in {CometState(simulationTime).distanceFromSun} :
        /\ r # NaN
        /\ r >= PerihelionState.distanceFromSun
        /\ simulationTime + TimeUnitsPerDay <= PerihelionTime
               => r >= CometState(simulationTime + TimeUnitsPerDay).distanceFromSun
        /\ simulationTime - TimeUnitsPerDay >= PerihelionTime
               => r >= CometState(simulationTime - TimeUnitsPerDay).distanceFromSun

\* Index of Earth in PLANETS.
Earth == CHOOSE i \in DOMAIN PLANETS : PLANETS[i].name = "Earth"

\* C11: with Earth's elements, for simulationTime = 0 the planet provider
\* computes mean anomaly 0, eccentric anomaly 0, true anomaly 0 and the
\* radius 1.000 * (1 - 0.017) = 0.983 AU, shown at (1.966, 0, 0).
C11_EarthAtEpoch ==
    planetMemo[Earth] = 0 =>
        \A M \in {PlanetMeanAnomaly(PLANETS[Earth], planetMemo[Earth])} :
        \A E \in {solveKeplerEllipse(M, PLANETS[Earth].eccentricity)} :
        \A nu \in {trueAnomalyFromE(E, PLANETS[Earth].eccentricity)} :
            /\ M = 0 /\ E = 0 /\ nu = 0
            /\ OrbitRadius(PLANETS[Earth].semiMajorAxis,
                           PLANETS[Earth].eccentricity, nu)
                   = MulFP(PLANETS[Earth].semiMajorAxis,
                           FP - PLANETS[Earth].eccentricity)
            /\ DisplayedPlanet(Earth)
                   = <<AU_SCALE * (FP - PLANETS[Earth].eccentricity), 0, 0>>

\* C11 witness: the clock ran, then the Discovery event set it back to 0 and
\* Earth is shown at (1.966, 0, 0).
C11_EarthShownAtEpoch ==
    /\ simulationTime = 0
    /\ lastTimeRef = 2 * ClockStepMs
    /\ planetMemo[Earth] = 0
    /\ DisplayedPlanet(Earth) = <<1966000, 0, 0>>

\* C12: for every simulationTime the speed the comet provider reports, in
\* km/s, is sqrt(mu * (2 / r + 1 / a)) for the computed distance r: about
\* 68 km/s at perihelion, maxVelocityAtPerihelion.
C12_VelocityIsVisViva ==
    \A c \in {DisplayedComet} :
        IsNumber(c.distanceFromSun) =>
            /\ Abs(c.velocity - VisViva(c.distanceFromSun)) <= KeplerTol
            /\ cometMemo = PerihelionTime => Abs(c.velocity - 68 * FP) <= FP

\* C13: for every simulationTime, negative ones included, the mean anomaly
\* the planet provider hands to the elliptical solver lies in [0, 2 pi).
C13_MeanAnomalyReduced ==
    \A i \in DOMAIN PLANETS :
        \A M \in {PlanetMeanAnomaly(PLANETS[i], planetMemo[i])} :
            0 <= M /\ M < TWO_PI

SolverReturned ==
    /\ call.returned
    /\ call.fn \in {"solveKeplerEllipse", "solveKeplerHyperbola"}

\* C14: both Kepler solvers terminate: a call performs between 1 and 100
\* Newton iterations, ends before the 100th only by the break on a step
\* below the tolerance, and returns a number (the end of the loop is reached
\* and a value handed back) also when the cap is reached unconverged.
C14_SolversTerminate ==
    SolverReturned =>
        /\ call.result.n \in 1..MaxIterations
        /\ call.result.done
        /\ call.result.n < MaxIterations => call.result.converged
        /\ call.result.x \in Int

\* C14 witness: solveKeplerHyperbola has returned a number after 100
\* iterations none of which had a step below the tolerance.
C14_CapReachedAndReturned ==
    /\ call.returned
    /\ call.fn = "solveKeplerHyperbola"
    /\ call.result.n = MaxIterations
    /\ ~call.result.converged
    /\ IsNumber(call.result.x)

\* 1e-6 is one unit of the fixed point; a residual computed in it carries
\* the rounding of the last Newton step besides.
RoundTripTol == 2 * KeplerTol

HyperbolaRoundTrip(H, M, e) ==
    IF Abs(H) <= SinhRange
    THEN Abs(MulFP(e, Sinh(H)) - H - M)
             <= RoundTripTol + MulFP(e, Cosh(H)) \div FP
    ELSE Abs(MulFP(e, Tanh(H)) - MulFP(H + M, Sech(H))) <= RoundTripTol

\* C16: hyperbolic round trip: for e > 1.01 and every M, large |M| far from
\* perihelion included, the value H returned by solveKeplerHyperbola(M, e)
\* is finite and satisfies |e sinh(H) - H - M| <= 1e-6.
C16_HyperbolaRoundTrip ==
    (/\ call.returned
     /\ call.fn = "solveKeplerHyperbola"
     /\ call.args[2] > 1010000)
    => /\ IsNumber(call.result.x)
       /\ HyperbolaRoundTrip(call.result.x, call.args[1], call.args[2])

\* n * simulationTime is held to 10^-6 of a turn: at the scene distance of
\* the planet that is a displacement of up to 2 pi * AU_SCALE * a * (1 + e)
\* units.
PeriodicTol(planet) ==
    RoundTripTol + MulFP(2 * AU_SCALE * planet.semiMajorAxis, TWO_PI) \div FP

\* C17: planet position is periodic: for every planet and every
\* simulationTime t, negative ones and those with t and t + period on
\* opposite sides of 0 included, position(t + period) equals position(t)
\* within tolerance.
C17_PlanetPeriodic ==
    (call.returned /\ call.fn = "Planet") =>
        \A k \in 1..3 :
            Abs(call.result.periodLater[k] - call.result.position[k])
                <= PeriodicTol(PLANETS[call.args[1]])

\* C17 witness: a planet away from its perihelion was rendered at a negative
\* time and again one period later, at a positive time.
C17_RenderedAcrossZero ==
    /\ call.returned /\ call.fn = "Planet"
    /\ call.args[2] < 0
    /\ call.args[2] + PLANETS[call.args[1]].period > 0
    /\ call.result.position[3] # 0
    /\ IsNumber(call.result.periodLater[1])

PositionReturned == call.returned /\ call.fn = "calculateOrbitalPosition"

\* C18: at true anomaly 0 the radius of the transform is |a| (1 - e) for
\* e < 1 and |a| (e - 1) for e > 1 (to one unit of the fixed point): the
\* magnitude of the semi-major axis is taken, so a negative a gives the
\* positive radius of its absolute value.
C18_PerihelionRadius ==
    (PositionReturned /\ call.args[3] = 0 /\ IsNumber(call.result.r)) =>
        LET a == call.args[1]
            e == call.args[2]
        IN  /\ Abs(call.result.r - MulFP(Abs(a), Abs(FP - e))) <= 1
            /\ call.result.r = OrbitRadius(Abs(a), e, 0)
            /\ call.result.r >= 0

\* C18 witness: the transform was computed at true anomaly 0 for a
\* hyperbolic orbit given with a negative semi-major axis.
C18_NegativeAxisAtPerihelion ==
    /\ PositionReturned
    /\ call.args[3] = 0
    /\ call.args[1] < 0
    /\ call.args[2] > FP
    /\ IsNumber(call.result.r)
    /\ call.result.r > 0

\* C19: the true-anomaly conversion is odd in its anomaly argument: for a
\* fixed eccentricity, elliptical or hyperbolic, and every anomaly X,
\* trueAnomalyFromE(-X, e) = -trueAnomalyFromE(X, e).
C19_TrueAnomalyOdd ==
    (call.returned /\ call.fn = "trueAnomalyFromE") =>
        call.result.negated = 0 - call.result.nu

\* C19 witness: a positive anomaly of a hyperbolic orbit was converted to a
\* positive true anomaly and its negative to a negative one.
C19_ConvertedBothSigns ==
    /\ call.returned /\ call.fn = "trueAnomalyFromE"
    /\ call.args[1] > 0
    /\ call.args[2] > FP
    /\ call.result.nu > 0
    /\ call.result.negated < 0

\* C20: with argument of perihelion, ascending node and inclination all 0,
\* calculateOrbitalPosition returns exactly (2 r cos nu, 0, 2 r sin nu):
\* orbital x is scene X, orbital y is scene Z, the out-of-plane component
\* (scene Y) is 0, and every coordinate is scaled by 2 units per AU.
C20_ZeroAnglesTransform ==
    (/\ PositionReturned
     /\ call.args[4] = 0 /\ call.args[5] = 0 /\ call.args[6] = 0
     /\ IsNumber(call.result.r))
    => call.result.position
         = << 2 * MulFP(call.result.r, Cos(call.args[3])),
              0,
              2 * MulFP(call.result.r, Sin(call.args[3])) >>

\* C20 witness: the transform was computed with all three angles 0 at a
\* true anomaly off both axes of the orbit.
C20_TransformedInPlane ==
    /\ PositionReturned
    /\ call.args[4] = 0 /\ call.args[5] = 0 /\ call.args[6] = 0
    /\ IsNumber(call.result.r)
    /\ call.result.position[1] # 0
    /\ call.result.position[3] # 0

\* The call chains behind what the scene shows: for every planet and for the
\* comet, the calls made and the simulationTime they were made for.
RenderedChains ==
    {[calls |-> PlanetChain(PLANETS[i]), time |-> planetMemo[i]] :
        i \in DOMAIN PLANETS}
    \cup {[calls |-> CometChain, time |-> cometMemo]}

\* C21: solver variant and eccentricity always match: in every state each
\* call of solveKeplerEllipse receives an eccentricity < 1 and each call of
\* solveKeplerHyperbola one > 1, and trueAnomalyFromE and
\* calculateOrbitalPosition take the branch of the same regime.
C21_RegimesMatch ==
    \A r \in RenderedChains :
        /\ r.calls.solver = "solveKeplerEllipse"
               => /\ r.calls.eccentricity < FP
                  /\ r.calls.anomalyBranch = "elliptical"
                  /\ r.calls.radiusBranch = "elliptical"
        /\ r.calls.solver = "solveKeplerHyperbola"
               => /\ r.calls.eccentricity > FP
                  /\ r.calls.anomalyBranch = "hyperbolic"
                  /\ r.calls.radiusBranch = "hyperbolic"

\* C21 witness: the scene was rendered again after a tick, through both
\* solvers: the planets' cells and the comet's hold the time ticked to.
C21_BothSolversRendered ==
    /\ simulationTime = ClockStepMs * speed
    /\ \A r \in RenderedChains : r.time = simulationTime
    /\ \E r \in RenderedChains : r.calls.solver = "solveKeplerEllipse"
    /\ \E r \in RenderedChains : r.calls.solver = "solveKeplerHyperbola"

C23_UniformSamples ==
    (call.returned /\ call.fn = "OrbitPath") =>
        LET planet   == PLANETS[call.args[1]]
            segments == call.args[2]
            s        == call.result.samples
        IN  /\ segments = 128
            /\ \A i \in DOMAIN s :
                   /\ 0 <= s[i].nu /\ s[i].nu < TWO_PI
                   /\ i > 0 => Abs(s[i].nu - s[i - 1].nu
                                   - DivFP(TWO_PI, segments * FP)) <= 1
                   /\ s[i].point[2] = 0
                   /\ s[i].r = OrbitRadius(planet.semiMajorAxis,
                                           planet.eccentricity, s[i].nu)

\* C24: the hyperbolic orbit path sampler considers 201 true anomalies
\* placed symmetrically about 0 within 0.95 acos(-1 / e) to either side and
\* emits a point only if its radius r satisfies 0 < r < 20 AU: every point
\* emitted has 0 < r < 20 (so has the vector pushed), at most 201 points
\* are emitted, and the point for nu is emitted exactly when the point for
\* -nu is.
C24_SymmetricClampedSamples ==
    (call.returned /\ call.fn = "CometOrbitPath") =>
        LET s == call.result.samples
        IN  /\ DOMAIN s = (0 - 100)..100
            /\ Cardinality({i \in DOMAIN s : s[i].emitted}) <= 201
            /\ \A i \in DOMAIN s :
                   /\ s[0 - i].nu = 0 - s[i].nu
                   /\ Abs(s[i].nu) <= CometPathLimit
                   /\ s[i].emitted = s[0 - i].emitted
                   /\ s[i].emitted =>
                          /\ s[i].r > 0 /\ s[i].r < 20 * FP
                          /\ \A d \in {VectorLength(s[i].point)} :
                                 d > 0 /\ d < 20 * AU_SCALE * FP

\* C24 witness: the path was sampled, and points were emitted both at the
\* perihelion and at the ends of the range, more than 18 AU out.
C24_PathSampled ==
    /\ call.returned /\ call.fn = "CometOrbitPath"
    /\ call.result.samples[0].emitted
    /\ call.result.samples[100].emitted
    /\ call.result.samples[0 - 100].emitted
    /\ call.result.samples[100].r > 18 * FP

\* C25: at any moment at most one requestAnimationFrame callback chain is
\* alive: a play/pause toggle or a speed change replaces the previous chain
\* instead of adding one, so no chain of an earlier render is left beside the
\* chain the last effect run started.
C25_SingleChain == 1 + StaleCount <= 1

\* C26: a tick interleaved with a scrub or a jump never overwrites it: a
\* scrub or jump sets simulationTime to its target T, and every tick adds its
\* increment, the time since the previous tick times the speed of the
\* callback's render (the current speed for the current chain), to the
\* simulationTime it finds, so that the tick after a scrub gives
\* T + delta * speed.
C26_TickAddsToLatestTime ==
    [][/\ \A T \in ScrubChoices :
              Scrub(T) => simulationTime' = T * TimeUnitsPerDay
       /\ \A idx \in DOMAIN KEY_EVENTS :
              JumpToEvent(idx)
                  => simulationTime' = KEY_EVENTS[idx].daysFromStart * TimeUnitsPerDay
       /\ Frame =>
              \E c \in Closures :
                  /\ CurrentFrame => c = [isPlaying |-> isPlaying, speed |-> speed]
                  /\ simulationTime' - simulationTime
                         = IF c.isPlaying THEN (now - lastTimeRef) * c.speed
                           ELSE 0]_vars

\* C26 witness: the timeline was scrubbed to its last day while the clock
\* was running, and the next tick, one step later, added its increment to
\* that day.
C26_TickedAfterScrub ==
    /\ isPlaying
    /\ ~firstFramePending
    /\ StaleCount = 0
    /\ now = ClockStepMs
    /\ lastTimeRef = now
    /\ simulationTime = SliderMax * TimeUnitsPerDay + ClockStepMs * speed

\* C27: resuming after a pause does not jump the clock: the toggle back to
\* playing sets lastTimeRef to the time of the resume and leaves
\* simulationTime alone, lastTimeRef never moves back afterwards, and the
\* first tick of the resumed chain adds speed times the time since
\* lastTimeRef, which is the time since the resume and not the time since
\* the last tick before the pause.
C27_ResumeRestartsDelta ==
    [][/\ (~isPlaying /\ TogglePlay)
              => /\ isPlaying'
                 /\ lastTimeRef' = now'
                 /\ firstFramePending'
                 /\ simulationTime' = simulationTime
       /\ lastTimeRef' >= lastTimeRef
       /\ lastTimeRef' <= now'
       /\ (isPlaying /\ FirstFrame)
              => /\ simulationTime' - simulationTime = (now - lastTimeRef) * speed
                 /\ lastTimeRef' = now]_vars

\* C27 witness: the clock was paused at the start, stayed paused for one
\* step, was resumed, and its first tick, one step after the resume, added
\* one step's worth of time, not two.
C27_TickedAfterResume ==
    /\ isPlaying
    /\ ~firstFramePending
    /\ StaleCount = 0
    /\ speed = 10
    /\ now = 2 * ClockStepMs
    /\ lastTimeRef = now
    /\ simulationTime = ClockStepMs * speed

\* C28: jumping to the "Perihelion" key event (daysFromStart = 120) puts the
\* simulation at the comet's perihelion instant: after the jump the
\* daysSincePerihelion the comet provider computes is 0 and the HUD
\* perihelion status reads "AT PERIHELION".
C28_JumpReachesPerihelion ==
    [][\A idx \in DOMAIN KEY_EVENTS :
           (KEY_EVENTS[idx].name = "Perihelion" /\ JumpToEvent(idx))
               => /\ DaysSincePerihelion(cometMemo') = 0
                  /\ perihelionInfo(simulationTime').text = "AT PERIHELION"]_vars

\* C29: the planet provider and the orbit path sampler agree: for every
\* planet of PLANETS and every simulationTime the position computed for the
\* planet lies on the planet's displayed orbit path, that is in the path's
\* plane (scene Y = 0) and at the radius a (1 - e^2) / (1 + e cos nu) of its
\* true anomaly nu.
C29_PlanetOnItsPath ==
    (call.returned /\ call.fn = "Planet") =>
        LET planet == PLANETS[call.args[1]]
            nu == trueAnomalyFromE(
                      solveKeplerEllipse(PlanetMeanAnomaly(planet, call.args[2]),
                                         planet.eccentricity),
                      planet.eccentricity)
            r  == OrbitRadius(planet.semiMajorAxis, planet.eccentricity, nu)
        IN  /\ call.result.position[2] = 0
            /\ Abs(VectorLength(call.result.position) - AU_SCALE * r) <= 20

\* C30: after any sequence of zoomIn and zoomOut from zoomLevel = 1,
\* 0.3 <= zoomLevel <= 5 holds, and a zoom or a change of the camera view
\* leaves simulationTime, isPlaying and speed as they are.
C30_ZoomClampedAndOrthogonal ==
    [][/\ ZoomValue(zoomLevel) >= ZoomMin /\ ZoomValue(zoomLevel) <= ZoomMax * FP
       /\ ZoomValue(zoomLevel') >= ZoomMin /\ ZoomValue(zoomLevel') <= ZoomMax * FP
       /\ (zoomIn \/ zoomOut \/ \E v \in CameraViews : SetCameraView(v))
              => UNCHANGED <<simulationTime, isPlaying, speed>>]_vars

\* C30 witness: the view was zoomed out until the lower clamp held and
\* switched to the angled camera, and the clock is as it was mounted.
C30_ZoomedOutToClamp ==
    /\ zoomLevel = [anchor |-> "min", steps |-> 0]
    /\ cameraView = "angle"
    /\ simulationTime = 0
    /\ isPlaying
    /\ speed = 10

====
